---- MODULE Spec2Model ----
(***************************************************************************)
(* A model of the SAML service-provider middleware of src/middleware.go.   *)
(*                                                                         *)
(* The server keeps no state between requests: everything a login flow or  *)
(* a session needs is held by the client in cookies.  The model therefore  *)
(* has a client (a cookie jar, requests in flight) and the handlers of the *)
(* plugin, which turn one request into one response.                       *)
(*                                                                         *)
(* Strings are modelled as tuples of one-character strings where their     *)
(* structure matters (paths, for strings.HasPrefix); identifiers drawn     *)
(* from saml.RandReader are modelled as fresh tuples <<"relay", k>> and    *)
(* <<"id", k>>; the empty string is <<>>.                                  *)
(*                                                                         *)
(* A JSON Web Token is modelled as the record of its header algorithm,     *)
(* the key its signature was made with, and its claims.                    *)
(***************************************************************************)
EXTENDS Naturals, Sequences, FiniteSets, TLC

VARIABLES
    plugin,   \* the SAMLPlugin value: its fields            (middleware.go:49-57)
    now,      \* the clock read by saml.TimeNow and by the token library
    jar,      \* the client's cookies: relay-state cookies and the session cookie
    issued,   \* how many authentication requests have been made so far
    tampers,  \* how many times the client has rewritten a cookie by hand
    sent,     \* how many requests the client has sent so far
    reqs,     \* the requests in flight, each with the handler's progress on it
    last,     \* the last callback that issued a session and was delivered
    attr,     \* the last invocation of a RequireAttribute middleware
    call      \* the last direct invocation of a method of the plugin

vars == <<plugin, now, jar, issued, tampers, sent, reqs, last, attr, call>>

-----------------------------------------------------------------------------
(* Bounds of the model *)

MaxRequests == 3   \* requests the client sends
MaxInFlight == 2   \* requests in flight at once
MaxFlows == 2      \* authentication requests made (fresh identifiers drawn)
MaxTime == 3       \* the clock runs 1..MaxTime
MaxAge == 1        \* the configured TokenMaxAge, in clock ticks
MaxTampers == 1    \* cookies the client rewrites by hand
MaxValues == 2     \* values in an attribute's list
MaxStatements == 2 \* attribute statements in an assertion
MaxAttributes == 2 \* attributes in a statement

-----------------------------------------------------------------------------
(* Strings *)

Empty == <<>>

\* strings.HasPrefix(s, prefix)
HasPrefix(s, prefix) ==
    /\ Len(prefix) <= Len(s)
    /\ \A i \in 1..Len(prefix) : s[i] = prefix[i]

RelayId(k) == <<"relay", k>>
ReqId(k) == <<"id", k>>

MetadataPath == <<"/", "m">>
AcsPath == <<"/", "s">>
RootURI == <<"/">>

\* the paths the client asks for
Paths == {MetadataPath, AcsPath, <<"/", "a", "b">>, <<"/", "o">>}

-----------------------------------------------------------------------------
(* Configuration *)

Key == "K"                 \* x509.MarshalPKCS1PrivateKey(s.ServiceProvider.Key)
EntityID == "sp"           \* s.ServiceProvider.Metadata().EntityID
jwtSigningMethod == "HS256"

\* A rule of s.Map: the value []string of a prefix, read by isAuthorized and
\* dumpAttributes as the required attribute name and value and the dump option.
Rule(name, value, dump) == [name |-> name, value |-> value, dump |-> dump]

\* The rule maps the model is run with: one prefix; two prefixes that both match
\* /a/b; and a prefix that matches every path, the endpoints included, whose rule
\* asks for the dump.
Maps ==
    { (<<"/", "a">> :> Rule("role", "admin", FALSE)),
      (<<"/", "a">> :> Rule("role", "staff", FALSE)) @@
          (<<"/", "a", "b">> :> Rule("role", "admin", TRUE)),
      (<<"/">> :> Rule("role", "user", TRUE)) }

\* The SSO locations of the identity provider's metadata, by binding; "" when
\* the metadata has none for the binding.
Bindings ==
    { [redirect |-> "idp", post |-> "idp"],
      [redirect |-> "",    post |-> "idp"],
      [redirect |-> "",    post |-> ""] }

Plugins ==
    [ AllowIDPInitiated : BOOLEAN,
      TokenMaxAge : {MaxAge},
      Map : Maps,
      IDP : Bindings ]

-----------------------------------------------------------------------------
(* Signed tokens (github.com/dgrijalva/jwt-go) *)

NoCookie == [kind |-> "absent"]      \* the cookie is not in the request: ""
NoToken == [kind |-> "nil"]          \* a nil *AuthorizationToken

\* jwt.New(jwtSigningMethod) with claims id and uri, SignedString(secretBlock)
StateToken(id, uri) ==
    [kind |-> "state", alg |-> jwtSigningMethod, key |-> Key, id |-> id, uri |-> uri]

\* jwt.NewWithClaims(jwt.SigningMethodHS256, claims).SignedString(secretBlock)
SessionToken(aud, iat, exp, sub, attrs) ==
    [kind |-> "session", alg |-> "HS256", key |-> Key, aud |-> aud,
     iat |-> iat, nbf |-> iat, exp |-> exp, sub |-> sub, attrs |-> attrs]

\* The algorithms whose Verify accepts a []byte key: the HMAC family.  "none"
\* wants jwt.UnsafeAllowNoneSignatureType, the RSA and ECDSA methods a public key.
HMACMethods == {"HS256", "HS384", "HS512"}

\* Parser.ParseWithClaims up to the signature: the token parses, its algorithm is
\* among ValidMethods when the parser names any, and the signature verifies
\* under the key the Keyfunc returns.
SignatureVerifies(tok, validMethods, key) ==
    /\ tok.kind \in {"state", "session"}
    /\ validMethods # {} => tok.alg \in validMethods
    /\ tok.alg \in HMACMethods
    /\ tok.key = key

\* The registered time claims of a token, 0 where the token has none.
TimeClaim(tok, name) ==
    IF tok.kind = "session"
    THEN (CASE name = "exp" -> tok.exp [] name = "iat" -> tok.iat [] OTHER -> tok.nbf)
    ELSE 0

\* The validation of this mutant takes a token for expired at its expiry time.
ClaimsValidStrict(tok, t) ==
    /\ TimeClaim(tok, "exp") # 0 => t < TimeClaim(tok, "exp")
    /\ TimeClaim(tok, "iat") # 0 => t >= TimeClaim(tok, "iat")
    /\ TimeClaim(tok, "nbf") # 0 => t >= TimeClaim(tok, "nbf")

\* StandardClaims.Valid and MapClaims.Valid: exp, iat and nbf are compared with
\* the clock, each only when it is set (not 0).
ClaimsValid(tok, t) ==
    /\ TimeClaim(tok, "exp") # 0 => t <= TimeClaim(tok, "exp")
    /\ TimeClaim(tok, "iat") # 0 => t >= TimeClaim(tok, "iat")
    /\ TimeClaim(tok, "nbf") # 0 => t >= TimeClaim(tok, "nbf")

\* err == nil && token.Valid after Parser.Parse / jwt.ParseWithClaims
TokenValid(tok, validMethods, key, t) ==
    SignatureVerifies(tok, validMethods, key) /\ ClaimsValid(tok, t)

\* map[string][]string: a function from the names present to value lists;
\* looking up a name that is absent gives the empty list.
EmptyMap == << >>

Lookup(m, name) == IF name \in DOMAIN m THEN m[name] ELSE << >>

\* The claims a token decodes to as an AuthorizationToken: a token without the
\* session claims leaves the fields at their zero values.
DecodeAuthorizationToken(tok) ==
    IF tok.kind = "session"
    THEN [kind |-> "token", aud |-> tok.aud, iat |-> tok.iat, nbf |-> tok.nbf,
          exp |-> tok.exp, sub |-> tok.sub, attrs |-> tok.attrs]
    ELSE [kind |-> "token", aud |-> "", iat |-> 0, nbf |-> 0,
          exp |-> 0, sub |-> "", attrs |-> EmptyMap]

-----------------------------------------------------------------------------
(* Requests and responses *)

\* What a handler has done with a request: the calls made on the response
\* writer in order, the invocations of the downstream handler and the identity
\* the request carried then, the status returned (0: the downstream handler's),
\* whether it panicked, and the authentication requests it made.
Out0 ==
    [w |-> << >>, next |-> 0, ctx |-> NoToken, ret |-> 0, panic |-> FALSE,
     flows |-> 0, calls |-> 0]

Wrote(out, ev) == [out EXCEPT !.w = Append(@, ev)]

\* http.Error(w, http.StatusText(code), code)
HttpError(out, code) == Wrote(out, [op |-> "Error", code |-> code])

\* return s.next.ServeHTTP(w, r)
NextServeHTTP(out) == [out EXCEPT !.next = @ + 1, !.ret = 0]

\* r = r.WithContext(WithToken(r.Context(), token))
WithToken(out, token) == [out EXCEPT !.ctx = token]

\* ClientState.GetStates(r): the values of the relay-state cookies of the request
GetStates(r) == {r.states[id] : id \in DOMAIN r.states}

\* ClientState.GetState(r, id): "" when the request has no such cookie
GetState(r, id) == IF id \in DOMAIN r.states THEN r.states[id] ELSE NoCookie

\* ClientToken.GetToken(r)
GetToken(r) == r.token

-----------------------------------------------------------------------------
(* getPossibleRequestIDs *)

\* The relay-state cookies of the request that parse and verify.
ValidStates(r, t) ==
    {v \in GetStates(r) : TokenValid(v, {jwtSigningMethod}, Key, t)}

\* The getPossibleRequestIDs of this mutant reads the request ID of every
\* relay-state cookie, verified or not.
getPossibleRequestIDsUnverified(s, r, t) ==
    [panic |-> FALSE,
     ids |-> {v.id : v \in {x \in GetStates(r) : x.kind = "state"}}
                \cup (IF s.AllowIDPInitiated THEN {Empty} ELSE {})]

\* claims["id"].(string) panics on a verified token that has no id claim.
getPossibleRequestIDs(s, r, t) ==
    [panic |-> \E v \in ValidStates(r, t) : v.kind # "state",
     ids |-> {v.id : v \in {x \in ValidStates(r, t) : x.kind = "state"}}
                \cup (IF s.AllowIDPInitiated THEN {Empty} ELSE {})]

\* The ParseResponse of this mutant does not look at InResponseTo.
ParseResponseAny(assertion, possibleRequestIDs) == assertion.ok

\* saml.ServiceProvider.ParseResponse: the response is accepted when the
\* assertion passes the engine's own validation and its InResponseTo is one of
\* the possible request IDs.
ParseResponse(assertion, possibleRequestIDs) ==
    assertion.ok /\ assertion.irt \in possibleRequestIDs

-----------------------------------------------------------------------------
(* Authorize *)

\* for _, value := range attr.Values { claims.Attributes[claimName] = append(...) }
AppendValues(m, name, values) ==
    IF values = << >> THEN m
    ELSE [n \in DOMAIN m \cup {name} |->
             IF n = name THEN Lookup(m, name) \o values ELSE m[n]]

\* an attribute's key: its FriendlyName, or its Name when that is empty
ClaimName(a) == IF a.FriendlyName = "" THEN a.Name ELSE a.FriendlyName

RECURSIVE FlattenAttributes(_, _)
FlattenAttributes(attributes, m) ==
    IF attributes = << >> THEN m
    ELSE FlattenAttributes(Tail(attributes),
             AppendValues(m, ClaimName(Head(attributes)), Head(attributes).Values))

\* The loop of this mutant merges the statements into one mapping.
RECURSIVE FlattenStatementsMerging(_, _)
FlattenStatementsMerging(statements, m) ==
    IF statements = << >> THEN m
    ELSE FlattenStatementsMerging(Tail(statements),
             FlattenAttributes(Head(statements), m))

\* for _, attributeStatement := range assertion.AttributeStatements: the mapping
\* is made anew for each statement.
RECURSIVE FlattenStatements(_, _)
FlattenStatements(statements, m) ==
    IF statements = << >> THEN m
    ELSE FlattenStatements(Tail(statements),
             FlattenAttributes(Head(statements), EmptyMap))

\* Lines 243-273: the session token is signed and set, and the browser is
\* redirected to redirectURI.
IssueSession(s, assertion, t, redirectURI, out) ==
    LET claims == SessionToken(EntityID, t, t + s.TokenMaxAge, assertion.sub,
                               FlattenStatements(assertion.stmts, EmptyMap))
    IN  Wrote(Wrote(out, [op |-> "SetToken", tok |-> claims]),
              [op |-> "Redirect", code |-> 302, loc |-> redirectURI])

\* The Authorize of this mutant takes a relay state that is missing for no
\* relay state at all.
AuthorizeMissingOk(s, r, t, out) ==
    IF r.relayState # Empty /\ GetState(r, r.relayState) # NoCookie
    THEN LET stateValue == GetState(r, r.relayState)
         IN  IF ~ TokenValid(stateValue, {jwtSigningMethod}, Key, t)
             THEN HttpError(out, 403)
             ELSE IssueSession(s, r.assertion, t, stateValue.uri,
                      Wrote(out, [op |-> "DeleteState", id |-> r.relayState]))
    ELSE IssueSession(s, r.assertion, t, RootURI, out)

\* The Authorize of this mutant redirects without deleting the relay state.
AuthorizeKeepsState(s, r, t, out) ==
    IF r.relayState # Empty
    THEN LET stateValue == GetState(r, r.relayState)
         IN  IF stateValue = NoCookie
             THEN HttpError(out, 403)
             ELSE IF ~ TokenValid(stateValue, {jwtSigningMethod}, Key, t)
             THEN HttpError(out, 403)
             ELSE IssueSession(s, r.assertion, t, stateValue.uri, out)
    ELSE IssueSession(s, r.assertion, t, RootURI, out)

Authorize(s, r, t, out) ==
    IF r.relayState # Empty
    THEN LET stateValue == GetState(r, r.relayState)
         IN  IF stateValue = NoCookie
             THEN HttpError(out, 403)
             ELSE IF ~ TokenValid(stateValue, {jwtSigningMethod}, Key, t)
             THEN HttpError(out, 403)
             ELSE IF stateValue.kind # "state"
             THEN [out EXCEPT !.panic = TRUE]      \* claims["uri"].(string)
             ELSE IssueSession(s, r.assertion, t, stateValue.uri,
                      Wrote(out, [op |-> "DeleteState", id |-> r.relayState]))
    ELSE IssueSession(s, r.assertion, t, RootURI, out)

-----------------------------------------------------------------------------
(* GetAuthorizationToken *)

\* The GetAuthorizationToken of this mutant does not compare the audience.
GetAuthorizationTokenAnyAudience(s, r, t) ==
    LET tokenStr == GetToken(r)
    IN  IF tokenStr = NoCookie THEN NoToken
        ELSE IF ~ TokenValid(tokenStr, {}, Key, t) THEN NoToken
        ELSE DecodeAuthorizationToken(tokenStr)

GetAuthorizationToken(s, r, t) ==
    LET tokenStr == GetToken(r)
        tokenClaims == DecodeAuthorizationToken(tokenStr)
    IN  IF tokenStr = NoCookie THEN NoToken
        ELSE IF ~ TokenValid(tokenStr, {}, Key, t) THEN NoToken
        ELSE IF ~ ClaimsValid(tokenStr, t) THEN NoToken
        ELSE IF tokenClaims.aud # EntityID THEN NoToken
        ELSE tokenClaims

-----------------------------------------------------------------------------
(* RequireAccount *)

\* s.ServiceProvider.GetSSOBindingLocation(binding)
GetSSOBindingLocation(s, binding) ==
    IF binding = "redirect" THEN s.IDP.redirect ELSE s.IDP.post

\* s.ServiceProvider.MakeAuthenticationRequest(bindingLocation): the engine
\* builds the request for any location, the empty one included, under a fresh ID.
MakeAuthenticationRequest(bindingLocation, k) ==
    [err |-> FALSE, ID |-> ReqId(k + 1), Destination |-> bindingLocation]

\* Lines 134-181 of RequireAccount on request r, k authentication requests
\* having been made before: the request ID and the relay state are the next
\* fresh ones.
RequireAccountFrom(s, r, k, out) ==
    LET binding == IF GetSSOBindingLocation(s, "redirect") = "" THEN "post" ELSE "redirect"
        bindingLocation == GetSSOBindingLocation(s, binding)
        req == MakeAuthenticationRequest(bindingLocation, k)
        relayState == RelayId(k + 1)
        signedState == StateToken(req.ID, r.path)
        set == [Wrote(out, [op |-> "SetState", id |-> relayState, tok |-> signedState])
                   EXCEPT !.flows = @ + 1]
    IN  IF req.err
        THEN HttpError(out, 500)
        ELSE IF binding = "redirect"
        THEN Wrote(set, [op |-> "Redirect", code |-> 302, loc |-> req.Destination,
                         relay |-> relayState])
        ELSE Wrote(Wrote(set, [op |-> "Header", name |-> "Content-Security-Policy"]),
                   [op |-> "Form", loc |-> req.Destination, relay |-> relayState])

\* The RequireAccount of this mutant does not look at the path.
RequireAccountAnywhere(s, r, k, out) ==
    RequireAccountFrom(s, r, k, [out EXCEPT !.calls = @ + 1])

RequireAccount(s, r, k, out) ==
    IF r.path = AcsPath
    THEN [out EXCEPT !.panic = TRUE, !.calls = @ + 1]
    ELSE RequireAccountFrom(s, r, k, [out EXCEPT !.calls = @ + 1])

-----------------------------------------------------------------------------
(* ServeHTTP *)

\* isAuthorized(v, token): the token's list for the rule's attribute name holds
\* the rule's value.
isAuthorized(v, token) ==
    \E i \in 1..Len(Lookup(token.attrs, v.name)) : Lookup(token.attrs, v.name)[i] = v.value

\* dumpAttributes(v): the rule asks for the attributes to be shown
dumpAttributes(v) == v.dump

\* The decision of this mutant lets a request through whose session lacks the
\* attribute.
AdmitAll(v, token, out) ==
    IF isAuthorized(v, token) /\ dumpAttributes(v)
    THEN [Wrote(WithToken(out, token), [op |-> "Dump", tok |-> token]) EXCEPT !.ret = 200]
    ELSE NextServeHTTP(WithToken(out, token))

\* Lines 102-112: the request has a session; the rule v decides.
Admit(v, token, out) ==
    IF isAuthorized(v, token)
    THEN IF dumpAttributes(v)
         THEN [Wrote(WithToken(out, token), [op |-> "Dump", tok |-> token]) EXCEPT !.ret = 200]
         ELSE NextServeHTTP(WithToken(out, token))
    ELSE [WithToken(out, token) EXCEPT !.ret = 403]

\* Lines 99-118: the rules are visited in the order the map's iteration gives;
\* k authentication requests had been made before the request.
RECURSIVE RuleLoop(_, _, _, _, _, _)
RuleLoop(s, r, t, order, k, out) ==
    IF order = << >>
    THEN NextServeHTTP(out)
    ELSE IF HasPrefix(r.path, Head(order))
    THEN LET token == GetAuthorizationToken(s, r, t)
             started == RequireAccount(s, r, k + out.flows, out)
         IN  IF token # NoToken
             THEN Admit(s.Map[Head(order)], token, out)
             ELSE IF started.panic THEN started
             ELSE RuleLoop(s, r, t, Tail(order), k, started)
    ELSE RuleLoop(s, r, t, Tail(order), k, out)

\* Lines 73-81: the metadata endpoint
ServeMetadata(out) == [Wrote(out, [op |-> "Metadata"]) EXCEPT !.ret = 200]

\* Lines 84-93: the assertion is parsed against the possible request IDs.  The
\* result tells whether the handler goes on to Authorize.
AcsParse(s, r, t) ==
    LET possible == getPossibleRequestIDs(s, r, t)
    IN  IF possible.panic
        THEN [goon |-> FALSE, out |-> [Out0 EXCEPT !.panic = TRUE]]
        ELSE IF ~ ParseResponse(r.assertion, possible.ids)
        THEN [goon |-> FALSE, out |-> NextServeHTTP(HttpError(Out0, 403))]
        ELSE [goon |-> TRUE, out |-> Out0]

\* Lines 95-96
AcsAuthorize(s, r, t, out) ==
    LET done == Authorize(s, r, t, out)
    IN  IF done.panic THEN done ELSE NextServeHTTP(done)

-----------------------------------------------------------------------------
(* RequireAttribute *)

\* The loop of this mutant goes on after the handler has been invoked.
RECURSIVE RequireAttributeLoopOn(_, _, _)
RequireAttributeLoopOn(values, value, out) ==
    IF values = << >>
    THEN HttpError(out, 403)
    ELSE IF Head(values) = value
    THEN RequireAttributeLoopOn(Tail(values), value, NextServeHTTP(out))
    ELSE RequireAttributeLoopOn(Tail(values), value, out)

\* Lines 329-336: the wrapped handler is invoked at the first value that is
\* `value`, and the function returns there.
RECURSIVE RequireAttributeLoop(_, _, _)
RequireAttributeLoop(values, value, out) ==
    IF values = << >>
    THEN HttpError(out, 403)
    ELSE IF Head(values) = value
    THEN NextServeHTTP(out)
    ELSE RequireAttributeLoop(Tail(values), value, out)

\* Token(r.Context()) is claims; next counts the wrapped handler's invocations
RequireAttribute(name, value, claims) ==
    IF claims # NoToken
    THEN RequireAttributeLoop(Lookup(claims.attrs, name), value, Out0)
    ELSE HttpError(Out0, 403)

-----------------------------------------------------------------------------
(* The client *)

Attribute(friendly, name, values) ==
    [FriendlyName |-> friendly, Name |-> name, Values |-> values]

\* The attribute statements the identity provider asserts
Statements ==
    { << <<Attribute("role", "urn:role", <<"user", "staff">>)>> >> }

\* The assertions posted to the assertion consumer: ok tells whether the engine's
\* own validation (signature, conditions, audience) accepts the response.
Assertions ==
    [ irt : {Empty} \cup {ReqId(k) : k \in 1..MaxFlows},
      ok : {TRUE},
      sub : {"alice"},
      stmts : Statements ]
    \cup
    [ irt : {ReqId(1)}, ok : {FALSE}, sub : {"alice"}, stmts : Statements ]

\* The paths on which RequireAccount is put in front of a handler
WrappedPaths == {AcsPath, <<"/", "a", "b">>}

NoAssertion == [irt |-> Empty, ok |-> FALSE, sub |-> "", stmts |-> << >>]

RelayStates == {Empty} \cup {RelayId(k) : k \in 1..MaxFlows}

\* The cookie changes of a response, applied by the client in the order the
\* handler made them: SetState, DeleteState and SetToken are Set-Cookie headers.
RECURSIVE ApplyCookies(_, _)
ApplyCookies(w, j) ==
    IF w = << >> THEN j
    ELSE LET ev == Head(w)
             j1 == CASE ev.op = "SetState" ->
                         [j EXCEPT !.states = (ev.id :> ev.tok) @@ @]
                     [] ev.op = "DeleteState" ->
                         [j EXCEPT !.states = [id \in DOMAIN @ \ {ev.id} |-> @[id]]]
                     [] ev.op = "SetToken" ->
                         [j EXCEPT !.token = ev.tok]
                     [] OTHER -> j
         IN  ApplyCookies(Tail(w), j1)

\* Values a client can write into a cookie in place of a token it holds: the
\* token signed under a key of its own, the token with another algorithm of the
\* family in its header and signed accordingly, the token unsigned, and a
\* session token made out for another audience.
Rewritten(tok) ==
    {[tok EXCEPT !.key = "X"], [tok EXCEPT !.alg = "HS512"],
     [tok EXCEPT !.alg = "none", !.key = ""]}
        \cup (IF tok.kind = "session" THEN {[tok EXCEPT !.aud = "other"]} ELSE {})

AttrNames == {"role", "dept"}
AttrValues == {"admin", "user", "staff"}

\* The value lists of at most MaxValues values, a value twice included
ValueLists == UNION {[1..n -> AttrValues] : n \in 0..MaxValues}

\* The identities a request context may hold when RequireAttribute is reached
Contexts ==
    {NoToken} \cup
    {DecodeAuthorizationToken(SessionToken(EntityID, 1, 1 + MaxAge, "alice", m)) :
        m \in {EmptyMap} \cup
              {(n :> l) : n \in AttrNames, l \in ValueLists \ {<< >>}}}

\* The orders in which a map with key set S may be iterated
Orders(S) ==
    {o \in [1..Cardinality(S) -> S] : \A i, j \in 1..Cardinality(S) : o[i] = o[j] => i = j}

\* A request as the client sends it, with the cookies it holds, and what the
\* handler made of it.
Request(entry, path, relayState, assertion) ==
    [entry |-> entry, path |-> path, relayState |-> relayState, assertion |-> assertion,
     states |-> jar.states, token |-> jar.token]

\* a sequence without its i-th element
Remove(q, i) == SubSeq(q, 1, i - 1) \o SubSeq(q, i + 1, Len(q))

\* The response has a session cookie in it.
IssuesSession(out) == \E n \in 1..Len(out.w) : out.w[n].op = "SetToken"

\* The response deletes the relay-state cookie id.
DeletesState(out, id) ==
    \E n \in 1..Len(out.w) : out.w[n].op = "DeleteState" /\ out.w[n].id = id

NoLast == [kind |-> "none"]

NoCall == [fn |-> "none"]

-----------------------------------------------------------------------------
(* The state machine *)

Init ==
    /\ plugin \in Plugins
    /\ now = 1
    /\ jar = [states |-> << >>, token |-> NoCookie]
    /\ issued = 0
    /\ tampers = 0
    /\ sent = 0
    /\ reqs = << >>
    /\ last = NoLast
    /\ attr = [invoked |-> FALSE, name |-> "", value |-> "", claims |-> NoToken,
               out |-> Out0]
    /\ call = NoCall

\* The handler of this mutant keeps state in the plugin: once it has served a
\* request it takes IdP-initiated flows for allowed.
HandleStateful(r, out) ==
    /\ sent < MaxRequests
    /\ Len(reqs) < MaxInFlight
    /\ issued + out.flows <= MaxFlows
    /\ sent' = sent + 1
    /\ issued' = issued + out.flows
    /\ reqs' = Append(reqs, [req |-> r, out |-> out])
    /\ plugin' = [plugin EXCEPT !.AllowIDPInitiated = TRUE]
    /\ UNCHANGED <<now, jar, tampers, last, attr, call>>

\* Request r is sent and handled with result out; the response is on its way.
Handle(r, out) ==
    /\ sent < MaxRequests
    /\ Len(reqs) < MaxInFlight
    /\ issued + out.flows <= MaxFlows
    /\ sent' = sent + 1
    /\ issued' = issued + out.flows
    /\ reqs' = Append(reqs, [req |-> r, out |-> out])
    /\ UNCHANGED <<plugin, now, jar, tampers, last, attr, call>>

\* ServeHTTP on the assertion consumer path, lines 83-97
ServeAcs(s, r, t) ==
    LET parsed == AcsParse(s, r, t)
    IN  IF parsed.goon THEN AcsAuthorize(s, r, t, parsed.out) ELSE parsed.out

\* ServeHTTP, lines 72-119: the metadata endpoint, the assertion consumer, and
\* the rules, visited in the order the map's iteration gives, k authentication
\* requests having been made before.
ServeHTTP(s, r, t, order, k) ==
    IF r.path = MetadataPath THEN ServeMetadata(Out0)
    ELSE IF r.path = AcsPath THEN ServeAcs(s, r, t)
    ELSE RuleLoop(s, r, t, order, k, Out0)

\* The client posts an assertion to the assertion consumer endpoint.
Callback ==
    \E relayState \in RelayStates, assertion \in Assertions :
        LET r == Request("ServeHTTP", AcsPath, relayState, assertion)
        IN  Handle(r, ServeAcs(plugin, r, now))

\* The client asks for the metadata.
Metadata ==
    LET r == Request("ServeHTTP", MetadataPath, Empty, NoAssertion)
    IN  Handle(r, ServeMetadata(Out0))

\* The client asks for a resource: ServeHTTP, lines 99-118.
Resource ==
    \E path \in Paths \ {MetadataPath, AcsPath}, order \in Orders(DOMAIN plugin.Map) :
        LET r == Request("ServeHTTP", path, Empty, NoAssertion)
        IN  Handle(r, RuleLoop(plugin, r, now, order, issued, Out0))

\* A request reaches RequireAccount put in front of a handler.
Wrapped ==
    \E path \in WrappedPaths :
        LET r == Request("RequireAccount", path, Empty, NoAssertion)
        IN  Handle(r, RequireAccount(plugin, r, issued, Out0))

\* The response reaches the client, which applies its cookies; a request whose
\* handler panicked is answered without any.
Deliver(i) ==
    /\ jar' = IF reqs[i].out.panic THEN jar ELSE ApplyCookies(reqs[i].out.w, jar)
    /\ last' = IF reqs[i].req.path = AcsPath /\ ~ reqs[i].out.panic
                  /\ IssuesSession(reqs[i].out) /\ reqs[i].req.relayState # Empty
               THEN [kind |-> "callback", relayState |-> reqs[i].req.relayState,
                     assertion |-> reqs[i].req.assertion, states |-> reqs[i].req.states]
               ELSE last
    /\ reqs' = Remove(reqs, i)
    /\ UNCHANGED <<plugin, now, issued, tampers, sent, attr, call>>

\* The client rewrites one of its cookies.
Tamper ==
    /\ tampers < MaxTampers
    /\ tampers' = tampers + 1
    /\ \/ /\ jar.token # NoCookie
          /\ \E tok \in Rewritten(jar.token) : jar' = [jar EXCEPT !.token = tok]
       \/ \E id \in DOMAIN jar.states :
              \E tok \in Rewritten(jar.states[id]) :
                  jar' = [jar EXCEPT !.states[id] = tok]
    /\ UNCHANGED <<plugin, now, issued, sent, reqs, last, attr, call>>

Tick ==
    /\ now < MaxTime
    /\ now' = now + 1
    /\ UNCHANGED <<plugin, jar, issued, tampers, sent, reqs, last, attr, call>>

Next ==
    \/ Callback
    \/ Metadata
    \/ Resource
    \/ Wrapped
    \/ \E i \in 1..Len(reqs) : Deliver(i)
    \/ Tamper
    \/ Tick

Spec == Init /\ [][Next]_vars

\* A request reaches a handler wrapped by RequireAttribute(name, value), its
\* context holding the identity claims or none.
ServeRequireAttribute ==
    /\ \E name \in AttrNames, value \in AttrValues, claims \in Contexts :
           attr' = [invoked |-> TRUE, name |-> name, value |-> value, claims |-> claims,
                    out |-> RequireAttribute(name, value, claims)]
    /\ UNCHANGED <<plugin, now, jar, issued, tampers, sent, reqs, last, call>>

NextAttr == ServeRequireAttribute

\* The RequireAttribute middleware alone, on every context and every pair
SpecAttr == Init /\ [][NextAttr]_vars

\* The values a client may present in a relay-state cookie: relay-state tokens
\* as RequireAccount signs them, such tokens rewritten, and a session token
\* the service has issued to it.
CookieValues ==
    LET genuine == {StateToken(ReqId(k), <<"/", "a", "b">>) : k \in 1..MaxFlows}
    IN  genuine \cup UNION {Rewritten(v) : v \in genuine}
            \cup {SessionToken(EntityID, 1, 1 + MaxAge, "alice", EmptyMap)}

\* The relay-state cookies of a request
PresentedStates ==
    UNION {[S -> CookieValues] : S \in SUBSET {RelayId(k) : k \in 1..MaxFlows}}

\* getPossibleRequestIDs is invoked on a request that presents relay-state
\* cookies, as the assertion consumer invokes it at line 85.
CallGetPossibleRequestIDs ==
    /\ \E states \in PresentedStates :
           LET r == [entry |-> "ServeHTTP", path |-> AcsPath, relayState |-> Empty,
                     assertion |-> NoAssertion, states |-> states, token |-> NoCookie]
           IN  call' = [fn |-> "getPossibleRequestIDs", r |-> r, at |-> now,
                        result |-> getPossibleRequestIDs(plugin, r, now)]
    /\ UNCHANGED <<plugin, now, jar, issued, tampers, sent, reqs, last, attr>>

NextIDs ==
    \/ CallGetPossibleRequestIDs
    \/ Tick

\* getPossibleRequestIDs alone, on every set of presented cookies
SpecIDs == Init /\ [][NextIDs]_vars

\* The attributes an identity provider may assert: one with a friendly name,
\* one without whose name is that friendly name, one without under another
\* name, and one that has no value.
FlatAttributes ==
    { Attribute("role", "urn:dept", <<"s", "u">>),
      Attribute("", "role", <<"u">>),
      Attribute("", "urn:dept", <<"u">>),
      Attribute("role", "role", << >>) }

\* The sequences over S of at most n elements
SeqUpTo(S, n) == UNION {[1..m -> S] : m \in 0..n}

\* The attribute statements of an assertion
StatementLists == SeqUpTo(SeqUpTo(FlatAttributes, MaxAttributes), MaxStatements)

\* Authorize is invoked, once in a behaviour, with an assertion the engine has
\* accepted, on a callback without RelayState, as the assertion consumer
\* invokes it at line 95.
CallAuthorize ==
    /\ call = NoCall
    /\ \E stmts \in StatementLists :
           LET r == [entry |-> "ServeHTTP", path |-> AcsPath, relayState |-> Empty,
                     assertion |-> [irt |-> Empty, ok |-> TRUE, sub |-> "alice",
                                    stmts |-> stmts],
                     states |-> << >>, token |-> NoCookie]
           IN  call' = [fn |-> "Authorize", r |-> r, at |-> now,
                        result |-> Authorize(plugin, r, now, Out0)]
    /\ UNCHANGED <<plugin, now, jar, issued, tampers, sent, reqs, last, attr>>

NextFlat == CallAuthorize

\* Authorize alone, on every list of attribute statements
SpecFlat == Init /\ [][NextFlat]_vars

-----------------------------------------------------------------------------
(* What the properties speak of *)

\* The response says Forbidden.
Forbidden(out) ==
    \E n \in 1..Len(out.w) : out.w[n] = [op |-> "Error", code |-> 403]

\* e is a request to the assertion consumer endpoint, handled by ServeHTTP.
IsCallback(e) == e.req.entry = "ServeHTTP" /\ e.req.path = AcsPath

\* e is a request for a resource, handled by ServeHTTP.
IsResource(e) == e.req.entry = "ServeHTTP" /\ e.req.path \notin {AcsPath, MetadataPath}

\* v is a relay-state token as RequireAccount signs it.
IsIssuedState(v) == v.kind = "state" /\ v.alg = "HS256" /\ v.key = Key

\* The cookies the client holds once it has applied the response to request e.
CookiesAfter(e) ==
    ApplyCookies(e.out.w, [states |-> e.req.states, token |-> e.req.token])

-----------------------------------------------------------------------------
(* C1..C4: the assertion consumer *)

\* C1: once a callback for relay identifier R has issued a session and the client
\* has applied its response, a callback with the same assertion and the same
\* RelayState parameter, R's cookie being gone, is answered Forbidden and is
\* given no session cookie.
C1_ReplayForbidden ==
    \A i \in 1..Len(reqs) :
        ( /\ last.kind = "callback"
          /\ IsCallback(reqs[i])
          /\ reqs[i].req.relayState = last.relayState
          /\ reqs[i].req.assertion = last.assertion
          /\ last.relayState \notin DOMAIN reqs[i].req.states )
        => Forbidden(reqs[i].out) /\ ~ IssuesSession(reqs[i].out)

\* A replay of a callback that went through, of an assertion that the possible
\* request IDs still admit.
C1_Witness ==
    /\ last.kind = "callback"
    /\ last.relayState \in DOMAIN last.states
    /\ \E i \in 1..Len(reqs) :
           /\ IsCallback(reqs[i])
           /\ reqs[i].req.relayState = last.relayState
           /\ reqs[i].req.assertion = last.assertion
           /\ last.relayState \notin DOMAIN reqs[i].req.states
           /\ reqs[i].req.assertion.irt = Empty
           /\ plugin.AllowIDPInitiated
           /\ Forbidden(reqs[i].out)

\* C2: of two callbacks in flight together that present a relay identifier with
\* the same assertion and the same relay-state cookies, at most one is given a
\* session cookie, and the other is answered Forbidden.
C2_ConcurrentReplayOnce ==
    \A i, j \in 1..Len(reqs) :
        ( /\ i # j
          /\ IsCallback(reqs[i]) /\ IsCallback(reqs[j])
          /\ reqs[i].req.relayState # Empty
          /\ reqs[i].req.relayState = reqs[j].req.relayState
          /\ reqs[i].req.assertion = reqs[j].req.assertion
          /\ reqs[i].req.states = reqs[j].req.states
          /\ IssuesSession(reqs[i].out) )
        => Forbidden(reqs[j].out) /\ ~ IssuesSession(reqs[j].out)

\* C3: a callback that presents the relay-state cookie of R as RequireAccount
\* issued it, names R in RelayState, and carries an assertion the engine accepts
\* whose InResponseTo is the request ID of R's token, is answered by the deletion
\* of R's cookie, then a session cookie, then a 302 to the URI of R's token; the
\* client holds no cookie for R afterwards.
C3_LoginSucceeds ==
    \A i \in 1..Len(reqs) :
        LET e == reqs[i]
            R == e.req.relayState
        IN  ( /\ IsCallback(e)
              /\ R # Empty /\ R \in DOMAIN e.req.states
              /\ IsIssuedState(e.req.states[R])
              /\ e.req.assertion.ok
              /\ e.req.assertion.irt = e.req.states[R].id )
            => /\ ~ e.out.panic
               /\ \E a, b, c \in 1..Len(e.out.w) :
                      /\ a < b /\ b < c
                      /\ e.out.w[a] = [op |-> "DeleteState", id |-> R]
                      /\ e.out.w[b].op = "SetToken"
                      /\ e.out.w[c] = [op |-> "Redirect", code |-> 302,
                                        loc |-> e.req.states[R].uri]
               /\ R \notin DOMAIN CookiesAfter(e).states

\* A login that ends where it began, at a resource.
C3_Witness ==
    \E i \in 1..Len(reqs) :
        LET e == reqs[i]
            R == e.req.relayState
        IN  /\ IsCallback(e)
            /\ R # Empty /\ R \in DOMAIN e.req.states
            /\ IsIssuedState(e.req.states[R])
            /\ e.req.assertion.ok
            /\ e.req.assertion.irt = e.req.states[R].id
            /\ e.req.states[R].uri = <<"/", "a", "b">>
            /\ IssuesSession(e.out)

\* C4: a callback whose assertion's InResponseTo is the request ID of none of the
\* relay-state cookies that verify, and is not an empty one that is allowed, is
\* answered 403 and nothing else, is given no session cookie, and goes on to the
\* downstream handler.
C4_FailedAssertion ==
    \A i \in 1..Len(reqs) :
        LET e == reqs[i]
        IN  ( /\ IsCallback(e)
              /\ e.req.assertion.irt \notin
                     {v.id : v \in {x \in GetStates(e.req) : IsIssuedState(x)}}
              /\ ~ (e.req.assertion.irt = Empty /\ plugin.AllowIDPInitiated) )
            => /\ e.out.w = << [op |-> "Error", code |-> 403] >>
               /\ ~ IssuesSession(e.out)
               /\ e.out.next = 1

\* An assertion the engine accepts, in answer to a request whose relay-state
\* cookie the client has signed itself.
C4_Witness ==
    \E i \in 1..Len(reqs) :
        LET e == reqs[i]
        IN  /\ IsCallback(e)
            /\ e.req.assertion.ok
            /\ e.req.assertion.irt \notin
                   {v.id : v \in {x \in GetStates(e.req) : IsIssuedState(x)}}
            /\ \E v \in GetStates(e.req) : v.id = e.req.assertion.irt
            /\ e.out.next = 1

-----------------------------------------------------------------------------
(* C5..C8: the session gate and the rules *)

\* A request is sent and handled in this step; NewRequest is that request with
\* what the handler made of it, and the clock of the step is now.
Handled == sent' = sent + 1

NewRequest == reqs'[Len(reqs')]

\* The prefixes of the rule map that the path matches
Matching(path) == {k \in DOMAIN plugin.Map : HasPrefix(path, k)}

\* A session token is valid at t: signed by the service with its one algorithm,
\* t within its time window, made out for the service.
ValidSession(tok, t) ==
    /\ tok.kind = "session"
    /\ tok.alg = "HS256" /\ tok.key = Key
    /\ tok.iat <= t /\ tok.nbf <= t /\ t <= tok.exp
    /\ tok.aud = EntityID

\* A session token is invalid at t for one of the three reasons: its signature,
\* its time window, its audience.
InvalidSession(tok, t) ==
    /\ tok.kind = "session"
    /\ \/ tok.key # Key
       \/ t < tok.iat \/ t < tok.nbf \/ t > tok.exp
       \/ tok.aud # EntityID

\* The identity's list for the rule's attribute name holds the rule's value.
Holds(rule, identity) ==
    /\ rule.name \in DOMAIN identity.attrs
    /\ \E n \in 1..Len(identity.attrs[rule.name]) : identity.attrs[rule.name][n] = rule.value

\* C5: a request for a resource whose path matches a configured prefix and that
\* carries no valid session token has RequireAccount invoked on it and is not
\* passed to the downstream handler.
C5_LoginTerminates ==
    [][ ( /\ Handled
          /\ IsResource(NewRequest)
          /\ Matching(NewRequest.req.path) # {}
          /\ ~ ValidSession(NewRequest.req.token, now) )
        => NewRequest.out.calls >= 1 /\ NewRequest.out.next = 0 ]_vars

\* C6: a request for a resource that carries an invalid session token is handled
\* as the same request without a session cookie is: GetAuthorizationToken gives
\* no token and does not panic, the outcome is an outcome of the request with
\* the cookie taken away, and on a path that matches a prefix RequireAccount is
\* invoked and sets a relay-state cookie.
C6_InvalidIsAbsent ==
    [][ ( /\ Handled
          /\ IsResource(NewRequest)
          /\ InvalidSession(NewRequest.req.token, now) )
        => /\ GetAuthorizationToken(plugin, NewRequest.req, now) = NoToken
           /\ ~ NewRequest.out.panic
           /\ \E order \in Orders(DOMAIN plugin.Map) :
                  NewRequest.out =
                      RuleLoop(plugin, [NewRequest.req EXCEPT !.token = NoCookie],
                               now, order, issued, Out0)
           /\ Matching(NewRequest.req.path) # {} =>
                  /\ NewRequest.out.calls >= 1
                  /\ \E n \in 1..Len(NewRequest.out.w) :
                         NewRequest.out.w[n].op = "SetState" ]_vars

\* A session token made out for another audience, on a protected path: the login
\* flow is started.
C6_Witness ==
    \E i \in 1..Len(reqs) :
        /\ IsResource(reqs[i])
        /\ reqs[i].req.token.kind = "session"
        /\ reqs[i].req.token.key = Key
        /\ reqs[i].req.token.aud # EntityID
        /\ reqs[i].out.calls >= 1
        /\ reqs[i].out.ctx = NoToken

\* C7: a token whose header names another algorithm than HS256 is rejected: as a
\* session token it gives the request no identity; as a relay-state token it
\* gives no request ID and is not consumed.
C7_OnlyHS256 ==
    \A i \in 1..Len(reqs) :
        LET e == reqs[i]
        IN  /\ ( /\ IsResource(e)
                 /\ e.req.token.kind = "session"
                 /\ e.req.token.alg # "HS256" )
               => e.out.ctx = NoToken
            /\ IsCallback(e) =>
                   \A id \in DOMAIN e.req.states :
                       e.req.states[id].alg # "HS256" =>
                           /\ ~ DeletesState(e.out, id)
                           /\ e.req.assertion.irt = e.req.states[id].id
                                  => ~ IssuesSession(e.out)

\* C8 as claimed: with a valid session on a path that matches a prefix, the
\* request is passed downstream with the identity when the session has the
\* required attribute value, the answer is 403 and the downstream handler is
\* not invoked when it has not, and RequireAccount is not invoked.
C8_ValidSessionDecides ==
    [][ ( /\ Handled
          /\ IsResource(NewRequest)
          /\ Matching(NewRequest.req.path) # {}
          /\ ValidSession(NewRequest.req.token, now) )
        => LET identity == DecodeAuthorizationToken(NewRequest.req.token)
               M == Matching(NewRequest.req.path)
               out == NewRequest.out
           IN  /\ out.calls = 0
               /\ (\A k \in M : Holds(plugin.Map[k], identity))
                      => out.next = 1 /\ out.ctx = identity
               /\ (\A k \in M : ~ Holds(plugin.Map[k], identity))
                      => out.ret = 403 /\ out.next = 0 ]_vars

\* C8 as amended: one of the matching rules decides.  When the session has the
\* rule's attribute value the identity is attached, and the request is passed
\* downstream, or, when the rule asks for the dump, the plugin answers 200
\* itself and the downstream handler is not invoked; when it has not, the
\* answer is 403 and the downstream handler is not invoked.  RequireAccount is
\* not invoked and no relay-state cookie is set.
C8_FirstRuleDecides ==
    [][ ( /\ Handled
          /\ IsResource(NewRequest)
          /\ Matching(NewRequest.req.path) # {}
          /\ ValidSession(NewRequest.req.token, now) )
        => LET identity == DecodeAuthorizationToken(NewRequest.req.token)
               out == NewRequest.out
           IN  /\ out.calls = 0 /\ out.flows = 0 /\ ~ out.panic
               /\ \E k \in Matching(NewRequest.req.path) :
                      IF Holds(plugin.Map[k], identity)
                      THEN /\ out.ctx = identity
                           /\ IF plugin.Map[k].dump
                              THEN out.next = 0 /\ out.ret = 200
                              ELSE out.next = 1 /\ out.ret = 0
                      ELSE out.ret = 403 /\ out.next = 0 ]_vars

\* A session the service issued, on a path under a rule that asks for the dump:
\* the identity is attached and the plugin answers itself.
C8_Witness ==
    \E i \in 1..Len(reqs) :
        /\ IsResource(reqs[i])
        /\ Matching(reqs[i].req.path) # {}
        /\ reqs[i].req.token.kind = "session"
        /\ reqs[i].req.token.alg = "HS256"
        /\ reqs[i].out.ctx = DecodeAuthorizationToken(reqs[i].req.token)
        /\ reqs[i].out.ret = 200
        /\ reqs[i].out.next = 0

-----------------------------------------------------------------------------
(* C9, C10: the middlewares *)

\* C9: RequireAttribute(name, value) invokes the wrapped handler once, and writes
\* nothing, when the context holds an identity whose list for name has value in
\* it; in every other case it invokes nothing and answers Forbidden.
C9_RequireAttribute ==
    attr.invoked =>
        IF /\ attr.claims # NoToken
           /\ attr.name \in DOMAIN attr.claims.attrs
           /\ \E n \in 1..Len(attr.claims.attrs[attr.name]) :
                  attr.claims.attrs[attr.name][n] = attr.value
        THEN attr.out.next = 1 /\ attr.out.w = << >>
        ELSE attr.out.next = 0 /\ attr.out.w = << [op |-> "Error", code |-> 403] >>

\* The value is in the list twice, and the handler is invoked once.
C9_Witness ==
    /\ attr.invoked
    /\ attr.claims # NoToken
    /\ attr.name \in DOMAIN attr.claims.attrs
    /\ attr.claims.attrs[attr.name] = <<attr.value, attr.value>>
    /\ attr.out.next = 1

\* C10: RequireAccount on the assertion consumer path panics, having set no
\* cookie, written nothing and made no authentication request; and ServeHTTP
\* on that path never invokes RequireAccount.
C10_NoLoginOnCallback ==
    \A i \in 1..Len(reqs) :
        LET e == reqs[i]
        IN  /\ (e.req.entry = "RequireAccount" /\ e.req.path = AcsPath)
                   => e.out.panic /\ e.out.w = << >> /\ e.out.flows = 0
            /\ IsCallback(e) => e.out.calls = 0

\* RequireAccount has been invoked on the assertion consumer path, and ServeHTTP
\* has served that path under a rule whose prefix matches it.
C10_Witness ==
    /\ \E i \in 1..Len(reqs) :
           reqs[i].req.entry = "RequireAccount" /\ reqs[i].req.path = AcsPath
              /\ reqs[i].out.panic
    /\ \E i \in 1..Len(reqs) :
           IsCallback(reqs[i]) /\ Matching(AcsPath) # {}

-----------------------------------------------------------------------------
(* C11..C13: the relay state of a callback *)

\* How many times the response deletes the relay-state cookie id.
Deletions(out, id) ==
    Cardinality({n \in 1..Len(out.w) :
                    out.w[n].op = "DeleteState" /\ out.w[n].id = id})

\* C11: a callback that consumes the relay-state token of R and is given a
\* session carries an assertion whose InResponseTo is the request ID of R's
\* token, or is empty with IdP-initiated flows allowed.
C11_SameFlow ==
    \A i \in 1..Len(reqs) :
        LET e == reqs[i]
            R == e.req.relayState
        IN  ( /\ IsCallback(e)
              /\ R # Empty
              /\ DeletesState(e.out, R)
              /\ IssuesSession(e.out) )
            => \/ e.req.assertion.irt = e.req.states[R].id
               \/ e.req.assertion.irt = Empty /\ plugin.AllowIDPInitiated

\* C12: a callback that presents a relay identifier deletes that relay state
\* exactly once, whether it is given a session or answered Forbidden.
C12_DeletedOnce ==
    \A i \in 1..Len(reqs) :
        ( /\ IsCallback(reqs[i])
          /\ ~ reqs[i].out.panic
          /\ reqs[i].req.relayState # Empty )
        => Deletions(reqs[i].out, reqs[i].req.relayState) = 1

\* C13: every token the plugin sets, relay-state token or session token, has
\* an expiry time, later than the clock of the step that issues it; and a
\* session token presented after its expiry gives the request no identity.
C13_BothExpire ==
    [][ Handled =>
          /\ \A n \in 1..Len(NewRequest.out.w) :
                 NewRequest.out.w[n].op \in {"SetState", "SetToken"} =>
                     /\ TimeClaim(NewRequest.out.w[n].tok, "exp") # 0
                     /\ TimeClaim(NewRequest.out.w[n].tok, "exp") >= now
          /\ ( /\ IsResource(NewRequest)
               /\ NewRequest.req.token.kind = "session"
               /\ NewRequest.req.token.exp < now )
             => NewRequest.out.ctx = NoToken ]_vars

-----------------------------------------------------------------------------
(* C14: the session token's round trip *)

\* tok is a session token as Authorize issues it under maximum age M, signed
\* with the service's key or with another.
AsIssued(tok, M) ==
    /\ tok.kind = "session"
    /\ tok.alg = "HS256"
    /\ tok.aud = EntityID
    /\ tok.nbf = tok.iat
    /\ tok.exp = tok.iat + M

\* C14: a session token issued at t with maximum age M, presented on a path
\* under a rule, gives the request the subject and the attribute mapping it was
\* issued with at every time from t to t + M, and gives it no identity after
\* t + M or when it was signed with another key than the service's.
C14_SessionRoundTrip ==
    [][ ( /\ Handled
          /\ IsResource(NewRequest)
          /\ Matching(NewRequest.req.path) # {}
          /\ AsIssued(NewRequest.req.token, plugin.TokenMaxAge) )
        => LET tok == NewRequest.req.token
               ctx == NewRequest.out.ctx
           IN  IF tok.key = Key /\ tok.iat <= now /\ now <= tok.iat + plugin.TokenMaxAge
               THEN /\ ctx # NoToken
                    /\ ctx.sub = tok.sub /\ ctx.attrs = tok.attrs
                    /\ ctx.aud = EntityID /\ ctx.exp = tok.exp
               ELSE ctx = NoToken ]_vars

\* The same session token has been presented twice: within its time, where it
\* gave the identity, and after its expiry, where it gave none.
C14_Witness ==
    \E i, j \in 1..Len(reqs) :
        /\ IsResource(reqs[i]) /\ IsResource(reqs[j])
        /\ reqs[i].req.token = reqs[j].req.token
        /\ AsIssued(reqs[i].req.token, plugin.TokenMaxAge)
        /\ reqs[i].req.token.key = Key
        /\ reqs[i].out.ctx # NoToken
        /\ reqs[i].out.ctx.attrs = reqs[i].req.token.attrs
        /\ Matching(reqs[j].req.path) # {}
        /\ reqs[j].out.ctx = NoToken

-----------------------------------------------------------------------------
(* C15: the possible request IDs *)

\* C15: getPossibleRequestIDs returns, for every set of cookies presented, the
\* request IDs of the relay-state tokens among them that verify under the
\* service's key, and the empty ID as well exactly when IdP-initiated flows are
\* allowed; a value that is no such token is passed over and stops nothing.
C15_PossibleRequestIDs ==
    call.fn = "getPossibleRequestIDs" =>
        /\ ~ call.result.panic
        /\ call.result.ids =
               {v.id : v \in {x \in GetStates(call.r) : IsIssuedState(x)}}
                   \cup (IF plugin.AllowIDPInitiated THEN {Empty} ELSE {})

-----------------------------------------------------------------------------
(* C16: the binding of the authentication request *)

\* The response has a call of kind op in it.
Has(out, op) == \E n \in 1..Len(out.w) : out.w[n].op = op

\* C16: a request on which RequireAccount has run is answered by a redirect,
\* without form or Content-Security-Policy header, when the redirect binding
\* has a location; by the form with the header, without redirect, when only the
\* form-post binding has one; and when neither has, no relay-state cookie is
\* set and neither a redirect nor a form is written.
C16_BindingSelection ==
    \A i \in 1..Len(reqs) :
        LET out == reqs[i].out
        IN  (out.calls >= 1 /\ ~ out.panic) =>
                IF plugin.IDP.redirect # ""
                THEN Has(out, "Redirect") /\ ~ Has(out, "Form") /\ ~ Has(out, "Header")
                ELSE IF plugin.IDP.post # ""
                THEN Has(out, "Form") /\ Has(out, "Header") /\ ~ Has(out, "Redirect")
                ELSE /\ ~ Has(out, "SetState") /\ out.flows = 0
                     /\ ~ Has(out, "Redirect") /\ ~ Has(out, "Form")

-----------------------------------------------------------------------------
(* C17: no state on the server *)

-----------------------------------------------------------------------------
(* C18: the attributes of the session *)

\* The values that the first i attributes of statement L give under key n, in
\* the order of the statement; an attribute's key is its friendly name, or its
\* name when it has none.
RECURSIVE ValuesUnder(_, _, _)
ValuesUnder(L, n, i) ==
    IF i = 0 THEN << >>
    ELSE ValuesUnder(L, n, i - 1) \o
             (IF (L[i].FriendlyName # "" /\ L[i].FriendlyName = n)
                    \/ (L[i].FriendlyName = "" /\ L[i].Name = n)
              THEN L[i].Values ELSE << >>)

\* The attribute mapping of the session token that Authorize has set.
IssuedAttributes(out) == out.w[1].tok.attrs

\* C18: the session token Authorize issues has, under every key, the values of
\* the attributes of the assertion's last statement that have that key, in
\* their order there, and nothing of the statements before it; without any
\* statement the mapping is empty.
C18_LastStatement ==
    call.fn = "Authorize" =>
        LET stmts == call.r.assertion.stmts
            L == IF stmts = << >> THEN << >> ELSE stmts[Len(stmts)]
            attrs == IssuedAttributes(call.result)
        IN  /\ call.result.w[1].op = "SetToken"
            /\ \A n \in {"role", "urn:dept"} \cup DOMAIN attrs :
                   Lookup(attrs, n) = ValuesUnder(L, n, Len(L))

\* Two statements: the first has an attribute under a key the last has not;
\* the last has two attributes under one key, one by its friendly name and one
\* by its name, and the token has the values of both in order.
C18_Witness ==
    /\ call.fn = "Authorize"
    /\ call.r.assertion.stmts =
           << <<Attribute("", "urn:dept", <<"u">>)>>,
              <<Attribute("role", "urn:dept", <<"s", "u">>),
                Attribute("", "role", <<"u">>)>> >>
    /\ IssuedAttributes(call.result) = ("role" :> <<"s", "u", "u">>)

-----------------------------------------------------------------------------
(* C19, C20: one login flow; no session without relay state *)

\* How many calls of the kinds in ops the response has in it.
Count(out, ops) == Cardinality({n \in 1..Len(out.w) : out.w[n].op \in ops})

\* C19: a request for a resource, whatever the number of prefixes its path
\* matches, has RequireAccount invoked on it at most once, is given at most one
\* relay-state cookie, and has at most one redirect, form or error written.
C19_OneLoginFlow ==
    \A i \in 1..Len(reqs) :
        IsResource(reqs[i]) =>
            /\ reqs[i].out.calls <= 1
            /\ reqs[i].out.flows <= 1
            /\ Count(reqs[i].out, {"SetState"}) <= 1
            /\ Count(reqs[i].out, {"Redirect", "Form", "Error"}) <= 1

\* C20 as claimed: with IdP-initiated flows not allowed, a callback is given a
\* session cookie only when it names a relay identifier whose cookie it presents
\* and whose token verifies; a callback without RelayState is given none.
C20_NoSessionWithoutRelayState ==
    \A i \in 1..Len(reqs) :
        LET e == reqs[i]
            R == e.req.relayState
        IN  ( /\ IsCallback(e)
              /\ ~ plugin.AllowIDPInitiated
              /\ IssuesSession(e.out) )
            => /\ R # Empty
               /\ R \in DOMAIN e.req.states
               /\ IsIssuedState(e.req.states[R])

\* C20 as amended: with IdP-initiated flows not allowed, a callback is given a
\* session cookie only when its assertion's InResponseTo is the request ID of a
\* relay-state cookie it presents whose token verifies.  When it names a relay
\* identifier, that identifier's cookie is presented, verifies and is deleted;
\* when it has no RelayState, the browser is sent to the root path and no
\* relay state is deleted.
C20_SessionNeedsOutstandingFlow ==
    \A i \in 1..Len(reqs) :
        LET e == reqs[i]
            R == e.req.relayState
        IN  ( /\ IsCallback(e)
              /\ ~ plugin.AllowIDPInitiated
              /\ IssuesSession(e.out) )
            => /\ \E id \in DOMAIN e.req.states :
                      /\ IsIssuedState(e.req.states[id])
                      /\ e.req.states[id].id = e.req.assertion.irt
               /\ R # Empty =>
                      /\ R \in DOMAIN e.req.states
                      /\ IsIssuedState(e.req.states[R])
                      /\ Deletions(e.out, R) = 1
               /\ R = Empty =>
                      /\ Count(e.out, {"DeleteState"}) = 0
                      /\ \E n \in 1..Len(e.out.w) :
                             e.out.w[n] = [op |-> "Redirect", code |-> 302, loc |-> RootURI]
               /\ CookiesAfter(e).states =
                      [id \in DOMAIN e.req.states \ {R} |-> e.req.states[id]]

\* IdP-initiated flows are not allowed; a callback without RelayState whose
\* assertion answers an outstanding request has been given a session, and the
\* relay state of that request is still among the client's cookies.
C20_Witness ==
    \E i \in 1..Len(reqs) :
        LET e == reqs[i]
        IN  /\ IsCallback(e)
            /\ ~ plugin.AllowIDPInitiated
            /\ e.req.relayState = Empty
            /\ IssuesSession(e.out)
            /\ \E id \in DOMAIN CookiesAfter(e).states :
                   e.req.states[id].id = e.req.assertion.irt

====
